---- MODULE Spec2Model ----
(***************************************************************************)
(* Model of just_in_time_game (src/src/main.rs): pieces and their          *)
(* orientations, the placement iterator of a field, the scoring function,  *)
(* the backtracking solver and the selection of the best solutions.        *)
(*                                                                         *)
(* Vectors are 1-based sequences: the source's field[x + y * width] is     *)
(* field[x + y * width + 1] here.  Coordinates x, y stay 0-based.          *)
(***************************************************************************)
EXTENDS Integers, Sequences, FiniteSets, Bags, TLC

VARIABLES
    build,      \* "debug" (overflow checks on) or "release" (wrapping)
    hashOrder,  \* iteration order of the HashSet behind all_variants
    \* ---- Solution::new / solve / best_solutions (SpecSolve)
    start,      \* Solution.start
    input,      \* the pieces handed to Solution::new
    pieces,     \* Solution.pieces: one Vec of orientations per input piece
    stack,      \* call stack of solve: one frame per active call
    solutions,  \* the accumulator, later Solution.solutions
    pc,         \* position of the program
    best,       \* result of best_solutions()
    highest,    \* result of highest_score()
    \* ---- one PlaceIterator driven by hand (SpecPlace)
    iter,       \* the PlaceIterator: field, piece, x, y
    yielded,    \* the items returned so far, each with its anchor
    visited,    \* the anchors (field_offset_x, field_offset_y) tried so far
    nones,      \* number of calls of next that returned None
    \* ---- Piece::all_variants and the three transforms (SpecVariants)
    orig,       \* the piece all_variants is called on
    variants,   \* the set collected by all_variants
    member      \* a piece obtained from orig by the transforms

vars == <<build, hashOrder, start, input, pieces, stack, solutions, pc, best,
          highest, iter, yielded, visited, nones, orig, variants, member>>

solveVars == <<start, input, pieces, stack, solutions, best, highest>>
placeVars == <<iter, yielded, visited, nones>>
variantVars == <<orig, variants, member>>

----------------------------------------------------------------------------
(* Bounds of the model *)

MaxCells == 4       \* cells of the largest small field
MaxPieceCells == 4  \* cells of the largest piece, and of a list of pieces together
MaxVariantCells == 9 \* cells of the largest piece all_variants is applied to
ScoreCycle == 3     \* free cell number i of a small field has score (i-1) % ScoreCycle
LongLen == 30       \* cells of the one-row field whose scores exceed a u8
MaxEndCalls == 2    \* calls of next made after the iterator is exhausted

\* usize is 64 bits wide in the source.  Every size of the model is below
\* 2^8, so a wrapped difference is larger than every coordinate and index
\* of the model, as it is with 2^64.
UsizeBits == 16
UsizeModulus == 2 ^ UsizeBits

U8Modulus == 256    \* Field::count accumulates in a u8
MaxScore == 9       \* Field::from_str: '1'..='9'

Builds == {"debug", "release"}
HashOrders == {"fwd", "rev"}

----------------------------------------------------------------------------
(* PieceState, Piece *)

Occupied == "Occupied"
Free == "Free"
PieceState == {Occupied, Free}

Piece(id, w, h, f) == [id |-> id, width |-> w, height |-> h, field |-> f]

\* Piece::flipped_horizontally: row y is copied from row height - y - 1.
flipped_horizontally(p) ==
    [p EXCEPT !.field =
        [i \in 1..(p.width * p.height) |->
            LET x == (i - 1) % p.width
                y == (i - 1) \div p.width
                src_y == p.height - y - 1
            IN  p.field[x + src_y * p.width + 1]]]

\* Piece::flipped_vertically: column x is copied from column width - x - 1.
flipped_vertically(p) ==
    [p EXCEPT !.field =
        [i \in 1..(p.width * p.height) |->
            LET x == (i - 1) % p.width
                y == (i - 1) \div p.width
                src_x == p.width - x - 1
            IN  p.field[src_x + y * p.width + 1]]]

\* Piece::transposed: t.field[x + y * t.width] = self.field[y + x * self.width].
transposed(p) ==
    LET tw == p.height
        th == p.width
    IN  Piece(p.id, tw, th,
              [i \in 1..(tw * th) |->
                  LET x == (i - 1) % tw
                      y == (i - 1) \div tw
                  IN  p.field[y + x * p.width + 1]])

\* The closure `transform` of all_variants, as the sequence of its inserts.
transform(s) ==
    LET vert == flipped_vertically(s)
    IN  <<flipped_horizontally(s), flipped_horizontally(vert), vert, s>>

\* A faulty all_variants that forgets the transposed piece.
inserts_without_transpose(p) == transform(p)

\* The inserts of all_variants in program order.
inserts(p) == transform(p) \o transform(transposed(p))

\* Piece::all_variants, as the set the HashSet holds.
all_variants(p) == {inserts(p)[i] : i \in 1..Len(inserts(p))}

\* The Vec all_variants returns: the members of the set, each once, in the
\* order the HashSet iterates them.  The order is unspecified; the model
\* draws it from the order of first insertion and its reverse.
RECURSIVE Dedup(_, _)
Dedup(s, seen) ==
    IF s = <<>> THEN <<>>
    ELSE IF Head(s) \in seen THEN Dedup(Tail(s), seen)
    ELSE <<Head(s)>> \o Dedup(Tail(s), seen \cup {Head(s)})

Reverse(s) == [i \in 1..Len(s) |-> s[Len(s) + 1 - i]]

\* A faulty all_variants that collects into a Vec: every insert is kept.
variant_list_with_duplicates(p, order) ==
    IF order = "fwd" THEN inserts(p) ELSE Reverse(inserts(p))

variant_list(p, order) ==
    LET firsts == Dedup(inserts(p), {})
    IN  IF order = "fwd" THEN firsts ELSE Reverse(firsts)

\* The shapes w x h of at most n cells.
Dims(n) == {d \in (1..n) \X (1..n) : d[1] * d[2] <= n}

\* All bitmaps of a w x h piece with at least one occupied cell.
Bitmaps(w, h) ==
    {f \in [1..(w * h) -> PieceState] : \E i \in 1..(w * h) : f[i] = Occupied}

\* The pieces of exactly n cells, and of at most n cells.
PiecesOf(id, n) ==
    UNION {{Piece(id, d[1], d[2], f) : f \in Bitmaps(d[1], d[2])} :
              d \in {e \in Dims(n) : e[1] * e[2] = n}}
PiecesWithin(id, n) == UNION {PiecesOf(id, k) : k \in 1..n}

\* A piece whose first and last row and column each hold an occupied cell.
Trimmed(p) ==
    LET at(x, y) == p.field[x + y * p.width + 1] = Occupied
    IN  /\ \E y \in 0..(p.height - 1) : at(0, y)
        /\ \E y \in 0..(p.height - 1) : at(p.width - 1, y)
        /\ \E x \in 0..(p.width - 1) : at(x, 0)
        /\ \E x \in 0..(p.width - 1) : at(x, p.height - 1)

OccupiedCount(p) == Cardinality({i \in 1..Len(p.field) : p.field[i] = Occupied})

----------------------------------------------------------------------------
(* FieldState, Field *)

Blocked == [tag |-> "Blocked", n |-> 0]
FieldOccupied(id) == [tag |-> "Occupied", n |-> id]
FieldFree(score) == [tag |-> "Free", n |-> score]

Field(w, h, f) == [width |-> w, height |-> h, field |-> f]

\* a - b on usize: a panic with overflow checks, a wrapped value without.
usize_sub(a, b, bld) ==
    IF a >= b THEN [panic |-> FALSE, val |-> a - b]
    ELSE IF bld = "debug" THEN [panic |-> TRUE, val |-> 0]
    ELSE [panic |-> FALSE, val |-> a - b + UsizeModulus]

\* a + b on u8: a panic with overflow checks, a wrapped value without.
u8_add(a, b, bld) ==
    IF a + b < U8Modulus THEN [panic |-> FALSE, val |-> a + b]
    ELSE IF bld = "debug" THEN [panic |-> TRUE, val |-> 0]
    ELSE [panic |-> FALSE, val |-> (a + b) % U8Modulus]

\* The score a cell adds in Field::count.
cell_score(c) == IF c.tag = "Free" THEN c.n ELSE 0

\* Field::count: the fold over the cells, from accumulator acc at cell i.
RECURSIVE count_fold(_, _, _, _)
count_fold(f, i, acc, bld) ==
    IF i > Len(f) THEN [panic |-> FALSE, val |-> acc]
    ELSE LET r == u8_add(acc, cell_score(f[i]), bld)
         IN  IF r.panic THEN r ELSE count_fold(f, i + 1, r.val, bld)

count(F, bld) == count_fold(F.field, 1, 0, bld)

\* The occupied cells of a piece in the order the two loops of next visit
\* them: piece_x outer, piece_y inner.
piece_cells(O) ==
    LET all == [k \in 1..(O.width * O.height) |->
                    <<(k - 1) \div O.height, (k - 1) % O.height>>]
    IN  SelectSeq(all, LAMBDA c : O.field[c[1] + c[2] * O.width + 1] = Occupied)

\* A faulty match that only refuses blocked cells.
cell_takable_not_blocked(c) == c.tag # "Blocked"

\* The arm of the match in next that lets a cell be taken.
cell_takable(c) == c.tag = "Free"

\* The stamping loops of next on the clone ret, from the k-th occupied cell:
\* "ok" with the stamped field, "reject" for continue 'main, "oob" when
\* the index is outside ret.field.
RECURSIVE stamp(_, _, _, _, _, _)
stamp(ret, O, cells, k, ox, oy) ==
    IF k > Len(cells) THEN [res |-> "ok", field |-> ret]
    ELSE LET field_x == ox + cells[k][1]
             field_y == oy + cells[k][2]
             idx == field_x + field_y * ret.width + 1
         IN  IF idx > Len(ret.field) THEN [res |-> "oob", field |-> ret]
             ELSE IF cell_takable(ret.field[idx])
                  THEN stamp([ret EXCEPT !.field[idx] = FieldOccupied(O.id)],
                             O, cells, k + 1, ox, oy)
                  ELSE [res |-> "reject", field |-> ret]

\* A faulty test that leaves out the last column.
row_done_early(x, lim) == x >= lim

\* The test that wraps the iterator to the next row.
row_done(x, lim) == x > lim

\* PlaceIterator::next from the position (x, y): the loop 'main.  The
\* result is "Some" with the field, "None", or "Panic"; x and y are the
\* position the iterator is left at, tried the anchors this call tried.
RECURSIVE next_loop(_, _, _, _, _, _)
next_loop(F, O, x, y, bld, tried) ==
    LET dh == usize_sub(F.height, O.height, bld)
        dw == usize_sub(F.width, O.width, bld)
        stop(r) == [res |-> r, field |-> F, x |-> x, y |-> y,
                    ax |-> x, ay |-> y, tried |-> tried]
    IN  IF dh.panic THEN stop("Panic")
        ELSE IF y > dh.val THEN stop("None")
        ELSE IF dw.panic THEN stop("Panic")
        ELSE LET wrap == row_done(x + 1, dw.val)
                 nx == IF wrap THEN 0 ELSE x + 1
                 ny == IF wrap THEN y + 1 ELSE y
                 st == stamp(F, O, piece_cells(O), 1, x, y)
                 now == Append(tried, <<x, y>>)
             IN  IF st.res = "oob"
                 THEN [res |-> "Panic", field |-> F, x |-> nx, y |-> ny,
                       ax |-> x, ay |-> y, tried |-> now]
                 ELSE IF st.res = "reject"
                 THEN next_loop(F, O, nx, ny, bld, now)
                 ELSE [res |-> "Some", field |-> st.field, x |-> nx, y |-> ny,
                       ax |-> x, ay |-> y, tried |-> now]

next(F, O, x, y, bld) == next_loop(F, O, x, y, bld, <<>>)

----------------------------------------------------------------------------
(* Inputs *)

\* Small fields as Field::from_str builds them: blocked or free cells, the
\* score of a free cell set by its position; withOccupied adds the fields
\* in which cells are taken by the first piece (id 0).
ScoreAt(i) == (i - 1) % ScoreCycle

GridFields(w, h, withOccupied) ==
    {Field(w, h, f) :
        f \in {g \in [1..(w * h) -> {Blocked, FieldOccupied(0)}
                                    \cup {FieldFree(n) : n \in 0..MaxScore}] :
                  \A i \in 1..(w * h) :
                      /\ g[i].tag = "Free" => g[i].n = ScoreAt(i)
                      /\ g[i].tag = "Occupied" => withOccupied}}

SmallFields(withOccupied) ==
    UNION {GridFields(d[1], d[2], withOccupied) : d \in Dims(MaxCells)}

\* One row of LongLen cells, all of the highest score but possibly the first.
LongFields ==
    {Field(LongLen, 1, [i \in 1..LongLen |->
                           IF i = 1 THEN c ELSE FieldFree(MaxScore)]) :
        c \in {Blocked, FieldFree(MaxScore)}}

\* The lists of pieces main builds, of n cells together: the k-th piece
\* has the id k - 1.  The solver is run on trimmed pieces.
RECURSIVE PieceLists(_, _)
PieceLists(n, id) ==
    {<<>>} \cup
    UNION {{<<q>> \o l : q \in {r \in PiecesOf(id, k) : Trimmed(r)},
                         l \in PieceLists(n - k, id + 1)} : k \in 1..n}

SolveInputs ==
    (SmallFields(FALSE) \X PieceLists(MaxPieceCells, 0))
        \cup (LongFields \X {l \in PieceLists(2, 0) : Len(l) = 1})

\* Fields a placement iterator can meet, for the second piece of the list
\* (id 1): the start field, or inside solve a state that holds the cells
\* of the first piece (id 0).
PlaceInputs ==
    (SmallFields(TRUE) \cup LongFields) \X PiecesWithin(1, MaxPieceCells)

NoField == Field(0, 0, <<>>)
NoPiece == Piece(0, 0, 0, <<>>)

IdleSolve ==
    /\ start = NoField /\ input = <<>> /\ pieces = <<>> /\ stack = <<>>
    /\ solutions = <<>> /\ best = <<>> /\ highest = -1
IdlePlace ==
    /\ iter = [field |-> NoField, piece |-> NoPiece, x |-> 0, y |-> 0]
    /\ yielded = <<>> /\ visited = <<>> /\ nones = 0
IdleVariants ==
    /\ orig = NoPiece /\ variants = {} /\ member = NoPiece

----------------------------------------------------------------------------
(* Solution::new, Solution::solve, best_solutions, highest_score *)

InitSolve ==
    /\ build \in Builds
    /\ hashOrder \in HashOrders
    /\ \E inp \in SolveInputs : start = inp[1] /\ input = inp[2]
    /\ pieces = <<>> /\ stack = <<>> /\ solutions = <<>>
    /\ best = <<>> /\ highest = -1
    /\ pc = "new"
    /\ IdlePlace /\ IdleVariants

\* A call of solve(state, &pieces[k..], solutions) at its first orientation.
Frame(state, k) == [state |-> state, k |-> k, v |-> 1, x |-> 0, y |-> 0]

remaining_pieces(f) == SubSeq(pieces, f.k, Len(pieces))
rest(f) == Tail(remaining_pieces(f))

\* The call the innermost solve is blocked in: next of the placement
\* iterator of its current orientation.
Top == stack[Len(stack)]
TopNext ==
    LET O == remaining_pieces(Top)[1][Top.v]
    IN  next(Top.state, O, Top.x, Top.y, build)
Advanced(r) == [stack EXCEPT ![Len(stack)] = [Top EXCEPT !.x = r.x, !.y = r.y]]

\* Solution::new up to the entry of solve, with the assert of solve.
New ==
    /\ pc = "new"
    /\ pieces' = [k \in 1..Len(input) |-> variant_list(input[k], hashOrder)]
    /\ solutions' = <<>>
    /\ IF input = <<>>
       THEN pc' = "panic_assert" /\ stack' = <<>>
       ELSE pc' = "solve" /\ stack' = <<Frame(start, 1)>>
    /\ UNCHANGED <<build, hashOrder, start, input, best, highest>>
    /\ UNCHANGED placeVars /\ UNCHANGED variantVars

\* The branch of solve's loop body taken for a placement.
is_last(r) == r = <<>>

\* for placement in ...: a placement, rest is empty: solutions.push.
SolvePush ==
    /\ pc = "solve"
    /\ LET r == TopNext IN
       /\ r.res = "Some"
       /\ is_last(rest(Top))
       /\ solutions' = Append(solutions, r.field)
       /\ stack' = Advanced(r)
       /\ UNCHANGED <<build, hashOrder, start, input, pieces, pc, best, highest>>
       /\ UNCHANGED placeVars /\ UNCHANGED variantVars

\* for placement in ...: a placement, rest is not empty: the recursive
\* call, with the assert at its entry.
SolveRecurse ==
    /\ pc = "solve"
    /\ LET r == TopNext IN
       /\ r.res = "Some"
       /\ ~is_last(rest(Top))
       /\ IF rest(Top) = <<>>
          THEN pc' = "panic_assert" /\ stack' = Advanced(r)
          ELSE pc' = pc /\ stack' = Append(Advanced(r),
                                           Frame(r.field, Top.k + 1))
       /\ UNCHANGED <<build, hashOrder, start, input, pieces, solutions, best, highest>>
       /\ UNCHANGED placeVars /\ UNCHANGED variantVars

\* The placement iterator is exhausted and top has another orientation.
SolveNextPiece ==
    /\ pc = "solve"
    /\ LET r == TopNext IN
       /\ r.res = "None"
       /\ Top.v < Len(remaining_pieces(Top)[1])
       /\ stack' = [stack EXCEPT ![Len(stack)] =
                       [Top EXCEPT !.v = Top.v + 1, !.x = 0, !.y = 0]]
       /\ UNCHANGED <<build, hashOrder, start, input, pieces, solutions, pc, best, highest>>
       /\ UNCHANGED placeVars /\ UNCHANGED variantVars

\* The placement iterator of the last orientation is exhausted: solve
\* returns, the outermost call to Solution::new.
SolveReturn ==
    /\ pc = "solve"
    /\ LET r == TopNext IN
       /\ r.res = "None"
       /\ Top.v = Len(remaining_pieces(Top)[1])
       /\ stack' = SubSeq(stack, 1, Len(stack) - 1)
       /\ pc' = IF Len(stack) = 1 THEN "done" ELSE pc
       /\ UNCHANGED <<build, hashOrder, start, input, pieces, solutions, best, highest>>
       /\ UNCHANGED placeVars /\ UNCHANGED variantVars

\* next panics: the program aborts.
SolvePanic ==
    /\ pc = "solve"
    /\ LET r == TopNext IN
       /\ r.res = "Panic"
       /\ pc' = "panic_next"
       /\ stack' = Advanced(r)
       /\ UNCHANGED <<build, hashOrder, start, input, pieces, solutions, best, highest>>
       /\ UNCHANGED placeVars /\ UNCHANGED variantVars

Max(S) == CHOOSE m \in S : \A n \in S : n <= m

\* Solution::highest_score.
highest_score(sols, bld) ==
    LET cs == [i \in 1..Len(sols) |-> count(sols[i], bld)]
    IN  IF \E i \in 1..Len(sols) : cs[i].panic THEN [panic |-> TRUE, val |-> 0]
        ELSE IF sols = <<>> THEN [panic |-> FALSE, val |-> 0]
        ELSE [panic |-> FALSE, val |-> Max({cs[i].val : i \in 1..Len(sols)})]

\* The filter of best_solutions.
is_best(c, hs) == c = hs

\* Solution::best_solutions, called by main once solve has returned.
BestSolutions ==
    /\ pc = "done"
    /\ LET hs == highest_score(solutions, build)
       IN  IF hs.panic
           THEN pc' = "panic_count" /\ best' = best
           ELSE /\ pc' = "best"
                /\ best' = SelectSeq(solutions,
                              LAMBDA f : is_best(count(f, build).val, hs.val))
    /\ UNCHANGED <<build, hashOrder, start, input, pieces, stack, solutions, highest>>
    /\ UNCHANGED placeVars /\ UNCHANGED variantVars

\* Solution::highest_score, called by main for its last line.
HighestScore ==
    /\ pc = "best"
    /\ LET hs == highest_score(solutions, build)
       IN  IF hs.panic
           THEN pc' = "panic_count" /\ highest' = highest
           ELSE pc' = "reported" /\ highest' = hs.val
    /\ UNCHANGED <<build, hashOrder, start, input, pieces, stack, solutions, best>>
    /\ UNCHANGED placeVars /\ UNCHANGED variantVars

NextSolve ==
    \/ New
    \/ SolvePush
    \/ SolveRecurse
    \/ SolveNextPiece
    \/ SolveReturn
    \/ SolvePanic
    \/ BestSolutions
    \/ HighestScore

SpecSolve == InitSolve /\ [][NextSolve]_vars

----------------------------------------------------------------------------
(* One placement iterator *)

\* Field::place_iter.
place_iter(F, O) == [field |-> F, piece |-> O, x |-> 0, y |-> 0]

InitPlace ==
    /\ build \in Builds
    /\ hashOrder = "fwd"
    /\ \E inp \in PlaceInputs : iter = place_iter(inp[1], inp[2])
    /\ yielded = <<>> /\ visited = <<>> /\ nones = 0
    /\ pc = "iter"
    /\ IdleSolve /\ IdleVariants

IterNext == next(iter.field, iter.piece, iter.x, iter.y, build)

\* next returns Some(ret).
IterSome ==
    /\ pc \in {"iter", "end"}
    /\ LET r == IterNext IN
       /\ r.res = "Some"
       /\ iter' = [iter EXCEPT !.x = r.x, !.y = r.y]
       /\ yielded' = Append(yielded, [x |-> r.ax, y |-> r.ay,
                                      field |-> r.field])
       /\ visited' = visited \o r.tried
       /\ UNCHANGED <<build, hashOrder, pc, nones>>
       /\ UNCHANGED solveVars /\ UNCHANGED variantVars

\* next returns None.
IterNone ==
    /\ pc \in {"iter", "end"}
    /\ nones <= MaxEndCalls
    /\ LET r == IterNext IN
       /\ r.res = "None"
       /\ iter' = [iter EXCEPT !.x = r.x, !.y = r.y]
       /\ visited' = visited \o r.tried
       /\ nones' = nones + 1
       /\ pc' = "end"
       /\ UNCHANGED <<build, hashOrder, yielded>>
       /\ UNCHANGED solveVars /\ UNCHANGED variantVars

\* next panics.
IterPanic ==
    /\ pc \in {"iter", "end"}
    /\ LET r == IterNext IN
       /\ r.res = "Panic"
       /\ iter' = [iter EXCEPT !.x = r.x, !.y = r.y]
       /\ visited' = visited \o r.tried
       /\ pc' = "panic_next"
       /\ UNCHANGED <<build, hashOrder, yielded, nones>>
       /\ UNCHANGED solveVars /\ UNCHANGED variantVars

NextPlace == IterSome \/ IterNone \/ IterPanic

SpecPlace == InitPlace /\ [][NextPlace]_vars

----------------------------------------------------------------------------
(* Orientations of one piece *)

InitVariants ==
    /\ build = "debug"
    /\ hashOrder = "fwd"
    /\ orig \in PiecesWithin(0, MaxVariantCells)
    /\ variants = {}
    /\ member = orig
    /\ pc = "piece"
    /\ IdleSolve /\ IdlePlace

AllVariants ==
    /\ pc = "piece"
    /\ variants' = all_variants(orig)
    /\ pc' = "variants"
    /\ UNCHANGED <<build, hashOrder, orig, member>>
    /\ UNCHANGED solveVars /\ UNCHANGED placeVars

FlipHorizontally ==
    /\ pc = "variants"
    /\ member' = flipped_horizontally(member)
    /\ UNCHANGED <<build, hashOrder, pc, orig, variants>>
    /\ UNCHANGED solveVars /\ UNCHANGED placeVars

FlipVertically ==
    /\ pc = "variants"
    /\ member' = flipped_vertically(member)
    /\ UNCHANGED <<build, hashOrder, pc, orig, variants>>
    /\ UNCHANGED solveVars /\ UNCHANGED placeVars

Transpose ==
    /\ pc = "variants"
    /\ member' = transposed(member)
    /\ UNCHANGED <<build, hashOrder, pc, orig, variants>>
    /\ UNCHANGED solveVars /\ UNCHANGED placeVars

NextVariants == AllVariants \/ FlipHorizontally \/ FlipVertically \/ Transpose

SpecVariants == InitVariants /\ [][NextVariants]_vars

----------------------------------------------------------------------------
(* What the specification says, stated without the program's loops *)

Fits(F, O) == O.width <= F.width /\ O.height <= F.height

InField(F, cx, cy) == cx < F.width /\ cy < F.height
CellAt(F, cx, cy) == F.field[cx + cy * F.width + 1]

\* The coordinates of the occupied cells of an orientation.
OccupiedCells(O) ==
    {c \in (0..(O.width - 1)) \X (0..(O.height - 1)) :
        O.field[c[1] + c[2] * O.width + 1] = Occupied}

\* The cells of F the orientation covers at the anchor (x, y).
Covered(O, x, y) == {<<x + c[1], y + c[2]>> : c \in OccupiedCells(O)}

\* Every occupied cell of O lands on a free cell of F.
LandsOnFree(F, O, x, y) ==
    \A c \in Covered(O, x, y) :
        InField(F, c[1], c[2]) /\ CellAt(F, c[1], c[2]).tag = "Free"

\* G is F with O stamped at (x, y) and nothing else changed.
IsStampOf(G, F, O, x, y) ==
    /\ G.width = F.width /\ G.height = F.height
    /\ DOMAIN G.field = DOMAIN F.field
    /\ LandsOnFree(F, O, x, y)
    /\ \A cx \in 0..(F.width - 1), cy \in 0..(F.height - 1) :
          CellAt(G, cx, cy) = IF <<cx, cy>> \in Covered(O, x, y)
                              THEN FieldOccupied(O.id)
                              ELSE CellAt(F, cx, cy)

\* The anchors of an orientation that fits, in row-major order.
Anchors(F, O) ==
    LET nx == F.width - O.width + 1
        ny == F.height - O.height + 1
    IN  [k \in 1..(nx * ny) |-> <<(k - 1) % nx, (k - 1) \div nx>>]

IsPrefix(s, t) == Len(s) <= Len(t) /\ s = SubSeq(t, 1, Len(s))

RECURSIVE ExactSum(_, _)
ExactSum(f, i) == IF i > Len(f) THEN 0 ELSE cell_score(f[i]) + ExactSum(f, i + 1)

\* The sum of the scores of the free cells, as an integer.
FreeScore(F) == ExactSum(F.field, 1)

\* The eight images of a piece under the symmetries of the rectangle.
Image(p, swap, mx, my) ==
    LET w == IF swap THEN p.height ELSE p.width
        h == IF swap THEN p.width ELSE p.height
    IN  Piece(p.id, w, h,
              [i \in 1..(w * h) |->
                  LET x == (i - 1) % w
                      y == (i - 1) \div w
                      u == IF swap THEN y ELSE x
                      v == IF swap THEN x ELSE y
                      sx == IF mx THEN p.width - 1 - u ELSE u
                      sy == IF my THEN p.height - 1 - v ELSE v
                  IN  p.field[sx + sy * p.width + 1]])

Orientations(p) == {Image(p, s, a, b) : s \in BOOLEAN, a \in BOOLEAN, b \in BOOLEAN}

\* The legal choices (orientation, anchor) for piece p on the field F.
Choices(F, p) ==
    {c \in Orientations(p) \X (0..(F.width - 1)) \X (0..(F.height - 1)) :
        /\ c[2] + c[1].width <= F.width
        /\ c[3] + c[1].height <= F.height
        /\ LandsOnFree(F, c[1], c[2], c[3])}

Stamped(F, O, x, y) ==
    [F EXCEPT !.field =
        [i \in DOMAIN F.field |->
            IF <<(i - 1) % F.width, (i - 1) \div F.width>> \in Covered(O, x, y)
            THEN FieldOccupied(O.id) ELSE F.field[i]]]

RECURSIVE BagSum(_, _)
BagSum(f, S) ==
    IF S = {} THEN EmptyBag
    ELSE LET c == CHOOSE d \in S : TRUE IN f[c] (+) BagSum(f, S \ {c})

\* The bag of the fields the sequences of legal choices for the pieces
\* ps[k], ps[k+1], ... lead to from F, one copy for each sequence.
RECURSIVE Outcomes(_, _, _)
Outcomes(F, ps, k) ==
    IF k > Len(ps) THEN SetToBag({F})
    ELSE LET cs == Choices(F, ps[k])
         IN  BagSum([c \in cs |-> Outcomes(Stamped(F, c[1], c[2], c[3]), ps, k + 1)], cs)

Occurrences(seq, G) == Cardinality({i \in 1..Len(seq) : seq[i] = G})
Range(seq) == {seq[i] : i \in 1..Len(seq)}
BagOfSeq(seq) == [G \in Range(seq) |-> Occurrences(seq, G)]

CellsOf(G, id) == {i \in 1..Len(G.field) : G.field[i] = FieldOccupied(id)}

----------------------------------------------------------------------------
(* Claims *)

\* C1: an orientation wider or taller than the field makes place_iter
\* yield no field and raise no error.
C1_OversizeIsEmptyWithoutError ==
    ~Fits(iter.field, iter.piece) => (pc # "panic_next" /\ yielded = <<>>)

\* C2: count returns the exact sum of the scores of the free cells, for
\* every field it is applied to, also when the sum exceeds 255.
C2_CountIsExactSum ==
    pc \in {"best", "reported", "panic_count"} =>
        \A i \in 1..Len(solutions) :
            count(solutions[i], build) = [panic |-> FALSE, val |-> FreeScore(solutions[i])]

\* C3: every field place_iter yields is the field with the orientation
\* stamped at one anchor: the covered cells were free and are now occupied
\* by the piece, every other cell is unchanged.
C3_YieldIsStampAtOneAnchor ==
    \A i \in 1..Len(yielded) :
        \E x \in 0..(iter.field.width - 1), y \in 0..(iter.field.height - 1) :
            IsStampOf(yielded[i].field, iter.field, iter.piece, x, y)

\* C4: in every collected field every input piece covers as many cells as
\* it has occupied cells, all of them free in the start field, and every
\* other cell is as in the start field.
C4_EveryPiecePlacedOnce ==
    \A i \in 1..Len(solutions) :
        LET G == solutions[i]
            ids == {input[k].id : k \in 1..Len(input)}
        IN  /\ Len(G.field) = Len(start.field)
            /\ \A k \in 1..Len(input) :
                  LET cells == CellsOf(G, input[k].id)
                  IN  /\ Cardinality(cells) = OccupiedCount(input[k])
                      /\ \A j \in cells : start.field[j].tag = "Free"
            /\ \A j \in 1..Len(G.field) :
                  \/ G.field[j].tag = "Occupied" /\ G.field[j].n \in ids
                  \/ G.field[j] = start.field[j]

C4_Witness ==
    /\ pc = "done"
    /\ Len(input) = 2
    /\ Len(solutions) >= 2
    /\ \E j \in 1..Len(start.field) : start.field[j] = Blocked

\* C5: once the solver has run, best_solutions and highest_score return;
\* best_solutions is empty exactly if there is no complete configuration,
\* holds exactly the complete configurations whose count is highest_score,
\* no configuration counts more, and highest_score is 0 without one.
C5_BestAreTheHighest ==
    pc \in {"reported", "panic_count"} =>
        /\ pc = "reported"
        /\ (best # <<>>) <=> (solutions # <<>>)
        /\ \A i \in 1..Len(best) :
              best[i] \in Range(solutions) /\ count(best[i], build).val = highest
        /\ \A i \in 1..Len(solutions) :
              /\ count(solutions[i], build).val <= highest
              /\ count(solutions[i], build).val = highest =>
                    Occurrences(best, solutions[i]) = Occurrences(solutions, solutions[i])
        /\ solutions = <<>> => highest = 0

\* C6: all_variants(P) is closed under the three transforms, and so the
\* transforms never lead out of it.
C6_VariantsClosed ==
    pc = "variants" =>
        /\ member \in variants
        /\ \A M \in variants :
              /\ flipped_horizontally(M) \in variants
              /\ flipped_vertically(M) \in variants
              /\ transposed(M) \in variants

C6_Witness ==
    /\ pc = "variants"
    /\ Cardinality(variants) = 8
    /\ member # orig
    /\ member.width # orig.width

\* C7: no field place_iter yields has a higher count than the field it
\* was yielded from.
C7_CountNeverIncreases ==
    \A i \in 1..Len(yielded) :
        LET cf == count(iter.field, build)
            cg == count(yielded[i].field, build)
        IN  ~cf.panic /\ ~cg.panic /\ cg.val <= cf.val

\* C8: for an orientation that fits, next tries the anchors in row-major
\* order, each once, yields exactly at the anchors where the orientation
\* lands on free cells, and returns None from the last anchor on.
C8_AnchorsInRowMajorOrder ==
    Fits(iter.field, iter.piece) =>
        LET F == iter.field
            O == iter.piece
            legal == SelectSeq(visited, LAMBDA a : LandsOnFree(F, O, a[1], a[2]))
        IN  /\ pc # "panic_next"
            /\ IsPrefix(visited, Anchors(F, O))
            /\ Len(yielded) = Len(legal)
            /\ \A i \in 1..Len(yielded) :
                  /\ <<yielded[i].x, yielded[i].y>> = legal[i]
                  /\ yielded[i].field = Stamped(F, O, legal[i][1], legal[i][2])
            /\ nones > 0 => visited = Anchors(F, O)

C8_Witness ==
    /\ Fits(iter.field, iter.piece)
    /\ nones > 1
    /\ iter.field.height > 1
    /\ Len(visited) >= 4
    /\ yielded # <<>>
    /\ Len(yielded) < Len(visited)

C10_SolveRunsToItsReturn ==
    input # <<>> =>
        /\ pc \notin {"panic_next", "panic_assert"}
        /\ Len(stack) <= Len(input)
        /\ \A i \in 1..Len(stack) :
              stack[i].k = i /\ remaining_pieces(stack[i]) # <<>>

====
